---- MODULE Spec2Model ----
(***************************************************************************)
(* postgres-backup: the streaming chunked file codec of                    *)
(* app/tools/cryptools.py (encrypt_file, decrypt_file) as a state machine  *)
(* over a small file system.  A file is a sequence of cells (bytes); a     *)
(* sidecar is a sequence of <<key, value>> lines.                          *)
(***************************************************************************)
EXTENDS Integers, Sequences, FiniteSets, TLC

(* ------------------------------ bounds --------------------------------- *)
\* longest plaintext file, in bytes
MaxLen == 3
\* largest chunk_size argument of encrypt_file, in bytes
MaxChunk == 2
\* radix of one length-prefix digit (a byte has 256 values; scaled down so
\* that the length of a short token already spans two digits)
ByteRadix == 4
\* hex digits of the digest (SHA-256 has 64; the modelled digest is scaled)
DigestLen == 5
\* largest file of the runs with the default chunk size, in MiB
BigLen == 150
\* the most seconds the clock advances between two readings
MaxTick == 2
\* largest progress_interval argument, in seconds
MaxInterval == 2
\* most bytes that follow the kept part of a damaged container
MaxTail == 3

\* values of a plaintext byte
PlainBytes == {0, 1}
\* the valid Fernet keys
Keys == {1, 2}
\* values of enc_key that are no Fernet key (None, a key of the wrong length)
BadKeys == {0}

(* --------------------------- program constants ------------------------- *)
\* len(...).to_bytes(8, byteorder='big') / infile.read(8)
LenWidth == 8
\* first byte of every Fernet token (0x80)
FernetVersion == 128
\* number of records of either metadata dict
MetaRecords == 6
\* chunk_size: int = 64 * 1024 * 1024, in MiB
DefaultChunk == 64
\* progress_interval: int = 5
DefaultInterval == 5

(* ------------------------------ helpers -------------------------------- *)
Min(a, b) == IF a < b THEN a ELSE b

Front(s) == SubSeq(s, 1, Len(s) - 1)

RECURSIVE Pow(_, _)
Pow(b, e) == IF e = 0 THEN 1 ELSE b * Pow(b, e - 1)

SeqsUpTo(S, n) == UNION {[1..k -> S] : k \in 0..n}

\* big-endian digits of n, w digits wide: int.to_bytes(w, byteorder='big')
ToDigits(n, w, radix) == [i \in 1..w |-> (n \div Pow(radix, w - i)) % radix]

\* int.from_bytes(b, byteorder='big'); b may be shorter than a full prefix
RECURSIVE FromDigits(_, _)
FromDigits(b, radix) ==
    IF b = <<>> THEN 0
    ELSE FromDigits(Front(b), radix) * radix + b[Len(b)]

ToBytes(n) == ToDigits(n, LenWidth, ByteRadix)
FromBytes(b) == FromDigits(b, ByteRadix)

\* a read that returns whole blocks of n only, and nothing at a short tail
ReadWholeBlock(data, pos, n) ==
    IF pos + n <= Len(data) THEN SubSeq(data, pos + 1, pos + n) ELSE <<>>

\* f.read(n) at position pos of a file holding data
Read(data, pos, n) == SubSeq(data, pos + 1, Min(pos + n, Len(data)))

(* ------------------------------ digest --------------------------------- *)
\* The digest as a number: a polynomial hash, order-sensitive and, within
\* the bounds, free of collisions on plaintexts (what SHA-256 is relied on for).
HashBase == 16
HashMod == Pow(16, DigestLen)

\* hash.update over the cells lo+1..hi of data, from the state h (the
\* range is halved, and h is looked at first, so that a long file does not
\* nest deeply)
RECURSIVE DigestUpdate(_, _, _, _)
DigestUpdate(h, data, lo, hi) ==
    IF h < 0 \/ hi <= lo THEN h
    ELSE IF hi = lo + 1
    THEN (h * HashBase + (data[hi] % (HashBase - 1)) + 1) % HashMod
    ELSE DigestUpdate(DigestUpdate(h, data, lo, (lo + hi) \div 2),
                      data, (lo + hi) \div 2, hi)

Digest(data) == DigestUpdate(0, data, 0, Len(data))

\* hashlib.sha256().hexdigest(): a fixed number of hex digits
Sha256Hex(data) == ToDigits(Digest(data), DigestLen, 16)

(* ------------------------------ Fernet --------------------------------- *)
\* the authentication tag of a token: one cell, determined by key and
\* plaintext, different from every byte and version cell (and, for the
\* chunks of up to MaxChunk bytes, different for different plaintexts)
RECURSIVE CodeUpdate(_, _, _, _)
CodeUpdate(c, p, lo, hi) ==
    IF c < 0 \/ hi <= lo THEN c
    ELSE IF hi = lo + 1
    THEN (c * (ByteRadix + 1) + p[hi] + 1) % 10007
    ELSE CodeUpdate(CodeUpdate(c, p, lo, (lo + hi) \div 2), p, (lo + hi) \div 2, hi)

Code(p) == CodeUpdate(1, p, 0, Len(p))

Mac(k, p) == 1000 + Code(p) * 10 + k

\* A token is URL-safe base64 text.  The byte length of a token of a chunk
\* of fewer than 32 bytes (73 or 89 bytes), as of a chunk of the default
\* 64 MiB, is no multiple of 3, so the last character of its text carries
\* unused low bits: written as zero, and dropped by urlsafe_b64decode.
B64Encode(tag) == 2 * tag
B64Decode(cell) == cell \div 2

\* fernet.encrypt(chunk)
FernetEncrypt(k, chunk) ==
    <<FernetVersion>> \o [i \in 1..Len(chunk) |-> (chunk[i] + k) % ByteRadix]
                      \o <<B64Encode(Mac(k, chunk))>>

FernetPlain(k, tok) ==
    [i \in 1..(Len(tok) - 2) |-> (tok[i + 1] + ByteRadix - k) % ByteRadix]

\* a decrypt that checks the framing of a token but not its tag
FernetValidAnyKey(k, tok) ==
    /\ Len(tok) >= 2
    /\ tok[1] = FernetVersion
    /\ \A i \in 2..(Len(tok) - 1) : tok[i] \in 0..(ByteRadix - 1)

\* fernet.decrypt(token) succeeds only on a token this key authenticates
FernetValid(k, tok) ==
    /\ Len(tok) >= 2
    /\ tok[1] = FernetVersion
    /\ \A i \in 2..(Len(tok) - 1) : tok[i] \in 0..(ByteRadix - 1)
    /\ B64Decode(tok[Len(tok)]) = Mac(k, FernetPlain(k, tok))

FernetDecrypt(k, tok) == FernetPlain(k, tok)

\* a constructor that takes any value for a key
KeyFormatUnchecked(k) == TRUE

\* Fernet(enc_key) raises unless the key is 32 url-safe base64-encoded bytes
KeyFormatValid(k) == k \in Keys

(* ------------------------------- paths --------------------------------- *)
\* a file name: its stem and its suffixes, each suffix starting with a dot
PathOf(stem, sfx) == [stem |-> stem, sfx |-> sfx]

\* Path.with_suffix: the last suffix, when there is one, is replaced
WithSuffix(p, s) ==
    PathOf(p.stem, (IF p.sfx = <<>> THEN <<>> ELSE Front(p.sfx)) \o s)

\* str(path).replace('.encrypted', '.decrypted')
ReplaceEncrypted(p) ==
    PathOf(p.stem, [i \in 1..Len(p.sfx) |->
                      IF p.sfx[i] = ".encrypted" THEN ".decrypted" ELSE p.sfx[i]])

\* file_path.parent / f"decrypted_{name}"
DecryptedPrefix(name) == PathOf(<<"decrypted_">> \o name.stem, name.sfx)

\* DatabaseBackup._get_backup_path: backup_<database>.sql
SrcPath == PathOf(<<"backup_db">>, <<".sql">>)

EncryptedPath(p) == WithSuffix(p, <<".sql", ".encrypted">>)
MetadataPath(e) == WithSuffix(e, <<".metadata">>)
DecryptionMetadataPath(d) == WithSuffix(d, <<".decryption_metadata">>)

\* a container that was given another extension: backup_db.sql.enc
RenamedPath == WithSuffix(EncryptedPath(SrcPath), <<".enc">>)

Paths ==
    LET e == EncryptedPath(SrcPath)
        d1 == DecryptedPrefix(SrcPath)
        d2 == ReplaceEncrypted(e)
    IN {SrcPath, e, MetadataPath(e), d1, d2,
        DecryptionMetadataPath(d1), DecryptionMetadataPath(d2), RenamedPath}

\* Path(): the current directory
Dot == PathOf(<<".">>, <<>>)
\* the None that download_file returns after an error
NoneValue == PathOf(<<"None">>, <<>>)

(* ---------------------------- file system ------------------------------ *)
NoFile == [exists |-> FALSE, data |-> <<>>]
File(data) == [exists |-> TRUE, data |-> data]
\* a directory with no file in it
NoFiles == [p \in Paths |-> NoFile]

\* open(path, 'wb') / open(path, 'w'): created, or truncated
Create(f, p) == [f EXCEPT ![p] = File(<<>>)]
\* file.write(bytes)
Write(f, p, bytes) == [f EXCEPT ![p] = File(f[p].data \o bytes)]
\* os.remove(path) / path.unlink()
Remove(f, p) == [f EXCEPT ![p] = NoFile]

\* calculate_file_hash(path): every chunk read is fed to one digest
calculate_file_hash(f, p) == Sha256Hex(f[p].data)

VARIABLES
    fs,              \* path -> file
    pc,              \* the statement the running call is at
    plain,           \* the content the source file had when encrypt_file was called
    enc_key,         \* argument enc_key of the running call
    chunk_size,      \* argument chunk_size of encrypt_file
    file_size,       \* local file_size
    original_hash,   \* local original_hash
    encrypted_hash,  \* local encrypted_hash
    decrypted_hash,  \* local decrypted_hash of decrypt_file
    processed_size,  \* local processed_size
    inpos,           \* read position of infile
    decrypted_path,  \* local decrypted_path of decrypt_file
    fs0,             \* the file system when the running call started
    failedAt,        \* the statement that raised, "none" while nothing has
    injected,        \* TRUE when that exception was an I/O fault
    truncated,       \* TRUE when the container was cut short before decrypt_file
    sameKey,         \* TRUE when decrypt_file got the key encrypt_file had
    corrupted,       \* the chunk of the container whose body was altered, 0 for none
    dec_file_path,   \* argument file_path of decrypt_file
    now,             \* the last value time.time() returned
    start_time,      \* local start_time
    last_progress_update,  \* local last_progress_update
    progress_interval,     \* argument progress_interval
    reports,         \* the progress lines the running call has logged
    opc,             \* the statement DatabaseBackup/DatabaseRestore.execute is at
    backup_file,     \* local backup_file of execute
    encrypted_file,  \* local encrypted_file of execute
    bucket,          \* the objects of the S3 bucket, by file name
    returncode,      \* process.returncode of the last pg_dump / psql run
    exc,             \* the exception execute is handling or has raised
    events           \* what the steps of execute have done, in order

vars == <<fs, pc, plain, enc_key, chunk_size, file_size, original_hash,
          encrypted_hash, decrypted_hash, processed_size, inpos,
          decrypted_path, fs0, failedAt, injected, truncated, sameKey,
          corrupted, dec_file_path, now, start_time, last_progress_update, progress_interval,
          reports, opc, backup_file, encrypted_file, bucket, returncode, exc,
          events>>

\* the state of the pipelines around the two calls
pipeline == <<opc, backup_file, encrypted_file, bucket, returncode, exc, events>>

\* the clock and what the progress tracking of a call keeps
clock == <<now, start_time, last_progress_update, progress_interval, reports>>

file_path == SrcPath
encrypted_path == EncryptedPath(file_path)
metadata_path == MetadataPath(encrypted_path)

\* encrypt_file is called on the source file, the only file there is
Called ==
    /\ fs = [p \in Paths |-> IF p = SrcPath THEN File(plain) ELSE NoFile]
    /\ fs0 = fs
    /\ pc = "enc_start"
    /\ file_size = 0
    /\ original_hash = <<>>
    /\ encrypted_hash = <<>>
    /\ decrypted_hash = <<>>
    /\ processed_size = 0
    /\ inpos = 0
    /\ decrypted_path = SrcPath
    /\ failedAt = "none"
    /\ injected = FALSE
    /\ truncated = FALSE
    /\ sameKey = TRUE
    /\ corrupted = 0
    /\ dec_file_path = encrypted_path
    /\ now = 0
    /\ start_time = 0
    /\ last_progress_update = 0
    /\ reports = <<>>
    /\ opc = "none"
    /\ backup_file = Dot
    /\ encrypted_file = Dot
    /\ bucket = NoFiles
    /\ returncode = 0
    /\ exc = "none"
    /\ events = <<>>

Init ==
    /\ plain \in SeqsUpTo(PlainBytes, MaxLen)
    /\ enc_key \in Keys \cup BadKeys
    /\ chunk_size \in 1..MaxChunk
    /\ progress_interval = DefaultInterval
    /\ Called

(* ----------------------------- encrypt_file ---------------------------- *)
\* what no statement of encrypt_file assigns
EncArgs == <<plain, enc_key, chunk_size, decrypted_path, decrypted_hash, fs0,
             truncated, sameKey, corrupted, dec_file_path, pipeline>>

\* the same, for the statements looked at without the clock
EncLocals == <<EncArgs, clock>>

\* fernet = Fernet(enc_key), before the try block: an invalid key raises
\* out of encrypt_file, no except block runs
EncStart ==
    /\ pc = "enc_start"
    /\ pc' = IF KeyFormatValid(enc_key) THEN "enc_stat" ELSE "enc_key_error"
    /\ UNCHANGED <<fs, file_size, original_hash, encrypted_hash, inpos, processed_size, failedAt, injected>>
    /\ UNCHANGED EncLocals

\* file_size = file_path.stat().st_size
EncStat ==
    /\ pc = "enc_stat"
    /\ file_size' = Len(fs[file_path].data)
    /\ pc' = "enc_hash"
    /\ UNCHANGED <<fs, original_hash, encrypted_hash, inpos, processed_size, failedAt, injected>>
    /\ UNCHANGED EncLocals

\* original_hash = calculate_file_hash(file_path)
EncHashOriginal ==
    /\ pc = "enc_hash"
    /\ original_hash' = calculate_file_hash(fs, file_path)
    /\ pc' = "enc_open"
    /\ UNCHANGED <<fs, file_size, encrypted_hash, inpos, processed_size, failedAt, injected>>
    /\ UNCHANGED EncLocals

\* with open(file_path, 'rb') as infile, open(encrypted_path, 'wb') as outfile
EncOpen ==
    /\ pc = "enc_open"
    /\ fs' = Create(fs, encrypted_path)
    /\ inpos' = 0
    /\ pc' = "enc_header"
    /\ UNCHANGED <<file_size, original_hash, encrypted_hash, processed_size, failedAt, injected>>
    /\ UNCHANGED EncLocals

\* the header: the digest's length, then the digest
EncHeader(f, h) == Write(Write(f, encrypted_path, ToBytes(Len(h))), encrypted_path, h)

EncWriteHeader ==
    /\ pc = "enc_header"
    /\ fs' = EncHeader(fs, original_hash)
    /\ pc' = "enc_loop"
    /\ UNCHANGED <<file_size, original_hash, encrypted_hash, inpos, processed_size, failedAt, injected>>
    /\ UNCHANGED EncLocals

\* a frame whose prefix holds the length of the plaintext chunk
EncFramePlainLength(k, chunk) ==
    ToBytes(Len(chunk)) \o FernetEncrypt(k, chunk)

\* one chunk, length-prefixed
EncFrame(k, chunk) ==
    LET encrypted_chunk == FernetEncrypt(k, chunk)
    IN ToBytes(Len(encrypted_chunk)) \o encrypted_chunk

\* while chunk := infile.read(chunk_size): ... ; the with block closes both files
EncChunk ==
    /\ pc = "enc_loop"
    /\ LET chunk == Read(fs[file_path].data, inpos, chunk_size)
       IN IF chunk # <<>>
          THEN /\ fs' = Write(fs, encrypted_path, EncFrame(enc_key, chunk))
               /\ inpos' = inpos + Len(chunk)
               /\ processed_size' = processed_size + Len(chunk)
               /\ pc' = "enc_loop"
          ELSE /\ pc' = "enc_hash_container"
               /\ UNCHANGED <<fs, inpos, processed_size>>
    /\ UNCHANGED <<file_size, original_hash, encrypted_hash, failedAt, injected>>
    /\ UNCHANGED EncLocals

\* encrypted_hash = calculate_file_hash(encrypted_path)
EncHashContainer ==
    /\ pc = "enc_hash_container"
    /\ encrypted_hash' = calculate_file_hash(fs, encrypted_path)
    /\ pc' = "enc_meta_open"
    /\ UNCHANGED <<fs, file_size, original_hash, inpos, processed_size, failedAt, injected>>
    /\ UNCHANGED EncLocals

\* the metadata dict of encrypt_file, in insertion order
EncMetadata ==
    << <<"original_filename", file_path>>,
       <<"original_size", file_size>>,
       <<"original_hash", original_hash>>,
       <<"encrypted_hash", encrypted_hash>>,
       <<"encryption_date", "now">>,
       <<"encryption_time", "elapsed">> >>

\* with open(metadata_path, 'w') as meta_file
EncMetaOpen ==
    /\ pc = "enc_meta_open"
    /\ fs' = Create(fs, metadata_path)
    /\ pc' = "enc_meta_write"
    /\ UNCHANGED <<file_size, original_hash, encrypted_hash, inpos, processed_size, failedAt, injected>>
    /\ UNCHANGED EncLocals

\* for key, value in metadata.items(): meta_file.write(f"{key}: {value}\n")
EncMetaWrite ==
    /\ pc = "enc_meta_write"
    /\ LET n == Len(fs[metadata_path].data)
       IN IF n < Len(EncMetadata)
          THEN /\ fs' = Write(fs, metadata_path, <<EncMetadata[n + 1]>>)
               /\ pc' = "enc_meta_write"
          ELSE /\ pc' = "enc_remove"
               /\ UNCHANGED fs
    /\ UNCHANGED <<file_size, original_hash, encrypted_hash, inpos, processed_size, failedAt, injected>>
    /\ UNCHANGED EncLocals

\* os.remove(file_path)
EncRemoveOriginal ==
    /\ pc = "enc_remove"
    /\ fs' = Remove(fs, file_path)
    /\ pc' = "enc_complete"
    /\ UNCHANGED <<file_size, original_hash, encrypted_hash, inpos, processed_size, failedAt, injected>>
    /\ UNCHANGED EncLocals

\* the completion log lines, then return encrypted_path
EncComplete ==
    /\ pc = "enc_complete"
    /\ pc' = "enc_returned"
    /\ UNCHANGED <<fs, file_size, original_hash, encrypted_hash, inpos, processed_size, failedAt, injected>>
    /\ UNCHANGED EncLocals

\* the statements of the try block of encrypt_file
EncTryPcs == {"enc_stat", "enc_hash", "enc_open", "enc_header", "enc_loop",
              "enc_hash_container", "enc_meta_open", "enc_meta_write",
              "enc_remove", "enc_complete"}

\* any statement of the try block may raise (an I/O fault, a logger that
\* raises, total_time = 0 in the completion lines): control goes to except
EncFault ==
    /\ pc \in EncTryPcs
    /\ failedAt' = pc
    /\ injected' = TRUE
    /\ pc' = "enc_except"
    /\ UNCHANGED <<fs, file_size, original_hash, encrypted_hash, inpos, processed_size>>
    /\ UNCHANGED EncLocals

\* an except block that forgets the container
EncCleanupSidecarOnly(f) ==
    IF f[metadata_path].exists THEN Remove(f, metadata_path) ELSE f

\* an except block that forgets the sidecar
EncCleanupContainerOnly(f) ==
    IF f[encrypted_path].exists THEN Remove(f, encrypted_path) ELSE f

\* the except block: both partial files are unlinked when they exist
EncCleanup(f) ==
    LET g == IF f[encrypted_path].exists THEN Remove(f, encrypted_path) ELSE f
    IN IF g[metadata_path].exists THEN Remove(g, metadata_path) ELSE g

\* except Exception: clean up, then raise
EncExcept ==
    /\ pc = "enc_except"
    /\ fs' = EncCleanup(fs)
    /\ pc' = "enc_raised"
    /\ UNCHANGED <<file_size, original_hash, encrypted_hash, inpos, processed_size, failedAt, injected>>
    /\ UNCHANGED EncLocals

EncNext ==
    \/ EncStart
    \/ EncStat
    \/ EncHashOriginal
    \/ EncOpen
    \/ EncWriteHeader
    \/ EncChunk
    \/ EncHashContainer
    \/ EncMetaOpen
    \/ EncMetaWrite
    \/ EncRemoveOriginal
    \/ EncComplete
    \/ EncFault
    \/ EncExcept

\* the length prefix read at pos, and the chunk body read after it
ChunkSizeBytes(data, pos) == Read(data, pos, LenWidth)
EncryptedChunk(data, pos) ==
    Read(data, pos + Len(ChunkSizeBytes(data, pos)), FromBytes(ChunkSizeBytes(data, pos)))

(* ------------------- between the two calls ----------------------------- *)
\* The container travels (upload, download) between encrypt_file and
\* decrypt_file.  DatabaseRestore downloads the container alone, so the
\* sidecar may be missing; an interrupted transfer or run may leave the
\* container cut short at any offset.
Handover == <<plain, enc_key, chunk_size, file_size, original_hash,
              encrypted_hash, decrypted_hash, processed_size, inpos,
              decrypted_path, fs0, failedAt, injected, sameKey, dec_file_path,
              clock, pipeline>>

\* encrypt_file has returned and decrypt_file has not been called yet
Returned == pc \in {"enc_returned", "handover"}

LoseSidecar ==
    /\ Returned
    /\ fs[metadata_path].exists
    /\ fs' = Remove(fs, metadata_path)
    /\ pc' = "handover"
    /\ UNCHANGED <<truncated, corrupted>>
    /\ UNCHANGED Handover

TruncateContainer ==
    /\ Returned
    /\ ~truncated
    /\ pc' = "handover"
    /\ \E cut \in 0..(Len(fs[encrypted_path].data) - 1) :
          fs' = [fs EXCEPT ![encrypted_path] =
                    File(SubSeq(fs[encrypted_path].data, 1, cut))]
    /\ truncated' = TRUE
    /\ UNCHANGED corrupted
    /\ UNCHANGED Handover

\* the chunks of a container, found as the reader finds them from pos on:
\* for each the offset of its body and the body's length
RECURSIVE Frames(_, _)
Frames(data, pos) ==
    IF Len(ChunkSizeBytes(data, pos)) < LenWidth
    THEN <<>>
    ELSE <<[at |-> pos + LenWidth, len |-> Len(EncryptedChunk(data, pos))]>>
            \o Frames(data, pos + LenWidth + FromBytes(ChunkSizeBytes(data, pos)))

\* the offset behind the header
HeaderEnd(data) == LenWidth + FromBytes(Read(data, 0, LenWidth))

\* what a damaged cell may hold: any byte, the version byte included, or
\* its old value with the lowest bit flipped
CorruptCells(old) ==
    ((0..(ByteRadix - 1)) \cup {FernetVersion, old + 1 - 2 * (old % 2)}) \ {old}

\* storage or transfer damage: one cell of one chunk body of the intact
\* container gets another value; the prefixes and the header stay
CorruptChunk ==
    /\ Returned
    /\ ~truncated
    /\ corrupted = 0
    /\ pc' = "handover"
    /\ LET data == fs[encrypted_path].data
           frames == Frames(data, HeaderEnd(data))
       IN \E j \in 1..Len(frames) :
          \E i \in 1..frames[j].len :
          \E v \in CorruptCells(data[frames[j].at + i]) :
             /\ fs' = [fs EXCEPT ![encrypted_path] =
                          File([data EXCEPT ![frames[j].at + i] = v])]
             /\ corrupted' = j
    /\ UNCHANGED truncated
    /\ UNCHANGED Handover

(* ----------------------------- decrypt_file ---------------------------- *)
\* what no statement of decrypt_file assigns
DecArgs == <<plain, enc_key, chunk_size, encrypted_hash, fs0, truncated, sameKey,
             corrupted, dec_file_path, pipeline>>

\* the same, for the statements looked at without the clock
DecLocals == <<DecArgs, clock>>

\* the value of key in the sidecar at path p, <<>> when there is none: the
\* dict built from the lines "key: value"
MetadataValues(f, p, key) ==
    IF f[p].exists
    THEN {f[p].data[i][2] : i \in {j \in 1..Len(f[p].data) : f[p].data[j][1] = key}}
    ELSE {}

\* the output name: from the sidecar's original_filename, else derived
DecryptedPath(f, container) ==
    LET names == MetadataValues(f, MetadataPath(container), "original_filename")
    IN IF names # {}
       THEN DecryptedPrefix(CHOOSE n \in names : TRUE)
       ELSE ReplaceEncrypted(container)

\* decrypt_file(encrypted_path, k, logger): Fernet(k), which raises out of
\* decrypt_file on an invalid key; then the sidecar is read and the output
\* name chosen, all before the try block
DecStart ==
    /\ Returned
    /\ \E k \in Keys \cup BadKeys :
          /\ enc_key' = k
          /\ sameKey' = (k = enc_key)
          /\ IF KeyFormatValid(k)
             THEN /\ decrypted_path' = DecryptedPath(fs, dec_file_path)
                  /\ processed_size' = 0
                  /\ pc' = "dec_stat"
             ELSE /\ pc' = "dec_key_error"
                  /\ UNCHANGED <<decrypted_path, processed_size>>
    /\ fs0' = fs
    /\ UNCHANGED <<fs, plain, chunk_size, file_size, original_hash, encrypted_hash,
                   decrypted_hash, inpos, failedAt, injected, truncated, corrupted,
                   dec_file_path>>
    /\ UNCHANGED <<clock, pipeline>>

\* file_size = file_path.stat().st_size
DecStat ==
    /\ pc = "dec_stat"
    /\ file_size' = Len(fs[dec_file_path].data)
    /\ pc' = "dec_open"
    /\ UNCHANGED <<fs, original_hash, decrypted_hash, processed_size, inpos,
                   decrypted_path, failedAt, injected>>
    /\ UNCHANGED DecLocals

\* with open(file_path, 'rb') as infile, open(decrypted_path, 'wb') as outfile
DecOpen ==
    /\ pc = "dec_open"
    /\ fs' = Create(fs, decrypted_path)
    /\ inpos' = 0
    /\ pc' = "dec_header"
    /\ UNCHANGED <<file_size, original_hash, decrypted_hash, processed_size,
                   decrypted_path, failedAt, injected>>
    /\ UNCHANGED DecLocals

\* hash_length = int.from_bytes(infile.read(8)); original_hash = infile.read(hash_length)
DecReadHeader ==
    /\ pc = "dec_header"
    /\ LET data == fs[dec_file_path].data
           length_bytes == Read(data, inpos, LenWidth)
           hash_length == FromBytes(length_bytes)
           hash == Read(data, inpos + Len(length_bytes), hash_length)
       IN /\ original_hash' = hash
          /\ inpos' = inpos + Len(length_bytes) + Len(hash)
          /\ file_size' = file_size - (LenWidth + hash_length)
    /\ pc' = "dec_loop"
    /\ UNCHANGED <<fs, decrypted_hash, processed_size, decrypted_path, failedAt, injected>>
    /\ UNCHANGED DecLocals

\* a stream whose reads leave its position where it was
ReadsInPlace(pos, chunk_size_bytes, encrypted_chunk) == pos

\* the position of infile after infile.read(8) and infile.read(chunk_size):
\* each read moves it by the number of bytes it returned
AfterReads(pos, chunk_size_bytes, encrypted_chunk) ==
    pos + Len(chunk_size_bytes) + Len(encrypted_chunk)

\* the loop ends on an empty prefix read and on an empty body read
LoopEnds(data, pos) ==
    \/ ChunkSizeBytes(data, pos) = <<>>
    \/ EncryptedChunk(data, pos) = <<>>

\* one iteration of while True: a break, a decrypted chunk written, or
\* InvalidToken raised by fernet.decrypt
DecChunk ==
    /\ pc = "dec_loop"
    /\ LET data == fs[dec_file_path].data
           chunk_size_bytes == ChunkSizeBytes(data, inpos)
           encrypted_chunk == EncryptedChunk(data, inpos)
       IN IF LoopEnds(data, inpos)
          THEN /\ pc' = "dec_verify"
               /\ UNCHANGED <<fs, inpos, processed_size, failedAt, injected>>
          ELSE IF FernetValid(enc_key, encrypted_chunk)
          THEN /\ fs' = Write(fs, decrypted_path, FernetDecrypt(enc_key, encrypted_chunk))
               /\ inpos' = AfterReads(inpos, chunk_size_bytes, encrypted_chunk)
               /\ processed_size' = processed_size + Len(encrypted_chunk)
               /\ pc' = "dec_loop"
               /\ UNCHANGED <<failedAt, injected>>
          ELSE /\ failedAt' = "dec_loop"
               /\ injected' = FALSE
               /\ pc' = "dec_except"
               /\ UNCHANGED <<fs, inpos, processed_size>>
    /\ UNCHANGED <<file_size, original_hash, decrypted_hash, decrypted_path>>
    /\ UNCHANGED DecLocals

\* a verification that accepts every digest
HashNeverChecked(expected, actual) == TRUE

\* a verification by decrypted_hash.startswith(original_hash)
HashPrefixChecked(expected, actual) == expected = SubSeq(actual, 1, Len(expected))

\* if original_hash == decrypted_hash
HashVerified(expected, actual) == expected = actual

\* decrypted_hash = calculate_file_hash(decrypted_path); a mismatch raises ValueError
DecVerify ==
    /\ pc = "dec_verify"
    /\ decrypted_hash' = calculate_file_hash(fs, decrypted_path)
    /\ IF HashVerified(original_hash, decrypted_hash')
       THEN /\ pc' = "dec_meta_open"
            /\ UNCHANGED <<failedAt, injected>>
       ELSE /\ failedAt' = "dec_verify"
            /\ injected' = FALSE
            /\ pc' = "dec_except"
    /\ UNCHANGED <<fs, file_size, original_hash, processed_size, inpos, decrypted_path>>
    /\ UNCHANGED DecLocals

\* the decryption_metadata dict, in insertion order
DecMetadata ==
    << <<"original_filename", dec_file_path>>,
       <<"decrypted_filename", decrypted_path>>,
       <<"decrypted_size", Len(fs[decrypted_path].data)>>,
       <<"decrypted_hash", decrypted_hash>>,
       <<"decryption_date", "now">>,
       <<"decryption_time", "elapsed">> >>

\* with open(decryption_metadata_path, 'w') as meta_file
DecMetaOpen ==
    /\ pc = "dec_meta_open"
    /\ fs' = Create(fs, DecryptionMetadataPath(decrypted_path))
    /\ pc' = "dec_meta_write"
    /\ UNCHANGED <<file_size, original_hash, decrypted_hash, processed_size, inpos,
                   decrypted_path, failedAt, injected>>
    /\ UNCHANGED DecLocals

\* for key, value in decryption_metadata.items(): meta_file.write(...)
DecMetaWrite ==
    /\ pc = "dec_meta_write"
    /\ LET p == DecryptionMetadataPath(decrypted_path)
           n == Len(fs[p].data)
       IN IF n < Len(DecMetadata)
          THEN /\ fs' = Write(fs, p, <<DecMetadata[n + 1]>>)
               /\ pc' = "dec_meta_write"
          ELSE /\ pc' = "dec_remove"
               /\ UNCHANGED fs
    /\ UNCHANGED <<file_size, original_hash, decrypted_hash, processed_size, inpos,
                   decrypted_path, failedAt, injected>>
    /\ UNCHANGED DecLocals

\* os.remove(file_path)
DecRemoveContainer ==
    /\ pc = "dec_remove"
    /\ fs' = Remove(fs, dec_file_path)
    /\ pc' = "dec_remove_meta"
    /\ UNCHANGED <<file_size, original_hash, decrypted_hash, processed_size, inpos,
                   decrypted_path, failedAt, injected>>
    /\ UNCHANGED DecLocals

\* a finalization that leaves the encryption sidecar behind
DecKeepSidecar ==
    /\ pc = "dec_remove_meta"
    /\ pc' = "dec_complete"
    /\ UNCHANGED <<fs, file_size, original_hash, decrypted_hash, processed_size, inpos,
                   decrypted_path, failedAt, injected>>
    /\ UNCHANGED DecLocals

\* if metadata_path.exists(): os.remove(metadata_path)
DecRemoveSidecar ==
    /\ pc = "dec_remove_meta"
    /\ fs' = IF fs[MetadataPath(dec_file_path)].exists
             THEN Remove(fs, MetadataPath(dec_file_path)) ELSE fs
    /\ pc' = "dec_complete"
    /\ UNCHANGED <<file_size, original_hash, decrypted_hash, processed_size, inpos,
                   decrypted_path, failedAt, injected>>
    /\ UNCHANGED DecLocals

\* the completion log lines, then return decrypted_path
DecComplete ==
    /\ pc = "dec_complete"
    /\ pc' = "dec_returned"
    /\ UNCHANGED <<fs, file_size, original_hash, decrypted_hash, processed_size, inpos,
                   decrypted_path, failedAt, injected>>
    /\ UNCHANGED DecLocals

\* the statements of the try block of decrypt_file
DecTryPcs == {"dec_stat", "dec_open", "dec_header", "dec_loop", "dec_verify",
              "dec_meta_open", "dec_meta_write", "dec_remove", "dec_remove_meta",
              "dec_complete"}

\* any statement of the try block may raise (an I/O fault, a logger that
\* raises, total_time = 0 in the completion lines): control goes to except
DecFault ==
    /\ pc \in DecTryPcs
    /\ failedAt' = pc
    /\ injected' = TRUE
    /\ pc' = "dec_except"
    /\ UNCHANGED <<fs, file_size, original_hash, decrypted_hash, processed_size, inpos,
                   decrypted_path>>
    /\ UNCHANGED DecLocals

\* an except block that forgets the partial output
DecCleanupSidecarOnly(f, d) ==
    IF f[DecryptionMetadataPath(d)].exists
    THEN Remove(f, DecryptionMetadataPath(d)) ELSE f

\* the except block: the partial output and its sidecar are unlinked when they exist
DecCleanup(f, d) ==
    LET g == IF f[d].exists THEN Remove(f, d) ELSE f
        m == DecryptionMetadataPath(d)
    IN IF g[m].exists THEN Remove(g, m) ELSE g

\* except Exception: clean up, then raise
DecExcept ==
    /\ pc = "dec_except"
    /\ fs' = DecCleanup(fs, decrypted_path)
    /\ pc' = "dec_raised"
    /\ UNCHANGED <<file_size, original_hash, decrypted_hash, processed_size, inpos,
                   decrypted_path, failedAt, injected>>
    /\ UNCHANGED DecLocals

DecNext ==
    \/ DecStart
    \/ DecStat
    \/ DecOpen
    \/ DecReadHeader
    \/ DecChunk
    \/ DecVerify
    \/ DecMetaOpen
    \/ DecMetaWrite
    \/ DecRemoveContainer
    \/ DecRemoveSidecar
    \/ DecComplete
    \/ DecFault
    \/ DecExcept

Next == EncNext \/ LoseSidecar \/ TruncateContainer \/ DecNext

Spec == Init /\ [][Next]_vars

\* encrypt_file with the default chunk size on files of up to BigLen MiB,
\* one cell standing for one MiB, the cells alternating between two values
InitBig ==
    /\ plain \in {[i \in 1..n |-> i % 2] : n \in 0..BigLen}
    /\ enc_key \in Keys
    /\ chunk_size = DefaultChunk
    /\ progress_interval = DefaultInterval
    /\ Called

SpecBig == InitBig /\ [][EncNext]_vars

\* the two calls with a damaged, full-length container between them
NextCorrupt == EncNext \/ LoseSidecar \/ CorruptChunk \/ DecNext

SpecCorrupt == Init /\ [][NextCorrupt]_vars

(* ------------------------- the calls with their clock ------------------ *)
\* time.time() is the wall clock: between two readings it advances by up to
\* MaxTick seconds, stands still, or is set back
Ticks == (0..MaxTick) \cup {-1}

\* a tracker that reports on every chunk
ReportAlways(current_time, last, interval) == TRUE

\* if current_time - last_progress_update >= progress_interval
ShouldReport(current_time, last, interval) == current_time - last >= interval

\* a tracker that never moves last_progress_update
LastKept(current_time, last) == last

\* last_progress_update = current_time
LastUpdated(current_time, last) == current_time

\* processed_size / file_size and processed_size / elapsed_time
DivisionByZero(processed, total, elapsed) == total = 0 \/ elapsed = 0

\* the values of one progress line; the estimate is remaining_size / speed
\* with speed = processed_size / elapsed_time, rounded down, and 0 unless
\* speed > 0
Snapshot(current_time, processed, total, start) ==
    LET elapsed == current_time - start
        remaining == total - processed
        positive == (processed > 0 /\ elapsed > 0) \/ (processed < 0 /\ elapsed < 0)
    IN [at |-> current_time,
        processed |-> processed,
        total |-> total,
        elapsed |-> elapsed,
        speed_positive |-> positive,
        remaining |-> remaining,
        eta_negative |-> positive /\ remaining < 0]

\* the progress block of either loop, entered with processed_size updated:
\* the clock is read; when a line is due it is computed and logged
Track(current_time, processed, loop_pc, progress_pc, except_pc) ==
    /\ now' = current_time
    /\ UNCHANGED <<start_time, progress_interval>>
    /\ IF ~ShouldReport(current_time, last_progress_update, progress_interval)
       THEN /\ pc' = loop_pc
            /\ UNCHANGED <<last_progress_update, reports, failedAt, injected>>
       ELSE IF DivisionByZero(processed, file_size, current_time - start_time)
       THEN /\ pc' = except_pc
            /\ failedAt' = progress_pc
            /\ injected' = FALSE
            /\ UNCHANGED <<last_progress_update, reports>>
       ELSE /\ pc' = loop_pc
            /\ reports' = Append(reports,
                                 Snapshot(current_time, processed, file_size, start_time))
            /\ last_progress_update' = LastUpdated(current_time, last_progress_update)
            /\ UNCHANGED <<failedAt, injected>>

\* the locals of a call that is over; the next call reads the clock anew
Forgotten ==
    /\ now' = 0
    /\ start_time' = 0
    /\ last_progress_update' = 0
    /\ reports' = <<>>
    /\ UNCHANGED progress_interval

\* start_time = time.time(); last_progress_update = start_time; then the
\* two files are opened
EncOpenTimed ==
    /\ pc = "enc_open"
    /\ start_time' = now
    /\ last_progress_update' = now
    /\ reports' = <<>>
    /\ fs' = Create(fs, encrypted_path)
    /\ inpos' = 0
    /\ pc' = "enc_header"
    /\ UNCHANGED <<file_size, original_hash, encrypted_hash, processed_size, failedAt, injected>>
    /\ UNCHANGED <<now, progress_interval>>
    /\ UNCHANGED EncArgs

\* one iteration of the loop of encrypt_file, progress block included
EncChunkTimed ==
    /\ pc = "enc_loop"
    /\ LET chunk == Read(fs[file_path].data, inpos, chunk_size)
       IN IF chunk # <<>>
          THEN /\ fs' = Write(fs, encrypted_path, EncFrame(enc_key, chunk))
               /\ inpos' = inpos + Len(chunk)
               /\ processed_size' = processed_size + Len(chunk)
               /\ \E d \in Ticks :
                     Track(now + d, processed_size + Len(chunk),
                           "enc_loop", "enc_progress", "enc_except")
          ELSE /\ pc' = "enc_hash_container"
               /\ UNCHANGED <<fs, inpos, processed_size, failedAt, injected>>
               /\ UNCHANGED clock
    /\ UNCHANGED <<file_size, original_hash, encrypted_hash>>
    /\ UNCHANGED EncArgs

\* total_time = time.time() - start_time; average_speed = file_size /
\* total_time, which raises on a total_time of 0; then return
EncCompleteTimed ==
    /\ pc = "enc_complete"
    /\ \E d \in Ticks :
          IF now + d - start_time = 0
          THEN /\ pc' = "enc_except"
               /\ failedAt' = "enc_complete"
               /\ injected' = FALSE
               /\ now' = now + d
               /\ UNCHANGED <<start_time, last_progress_update, progress_interval, reports>>
          ELSE /\ pc' = "enc_returned"
               /\ Forgotten
               /\ UNCHANGED <<failedAt, injected>>
    /\ UNCHANGED <<fs, file_size, original_hash, encrypted_hash, inpos, processed_size>>
    /\ UNCHANGED EncArgs

\* start_time = time.time(); last_progress_update = start_time; then the
\* two files are opened
DecOpenTimed ==
    /\ pc = "dec_open"
    /\ start_time' = now
    /\ last_progress_update' = now
    /\ reports' = <<>>
    /\ fs' = Create(fs, decrypted_path)
    /\ inpos' = 0
    /\ pc' = "dec_header"
    /\ UNCHANGED <<file_size, original_hash, decrypted_hash, processed_size,
                   decrypted_path, failedAt, injected>>
    /\ UNCHANGED <<now, progress_interval>>
    /\ UNCHANGED DecArgs

\* one iteration of the loop of decrypt_file, progress block included
DecChunkTimed ==
    /\ pc = "dec_loop"
    /\ LET data == fs[dec_file_path].data
           chunk_size_bytes == ChunkSizeBytes(data, inpos)
           encrypted_chunk == EncryptedChunk(data, inpos)
       IN IF LoopEnds(data, inpos)
          THEN /\ pc' = "dec_verify"
               /\ UNCHANGED <<fs, inpos, processed_size, failedAt, injected>>
               /\ UNCHANGED clock
          ELSE IF FernetValid(enc_key, encrypted_chunk)
          THEN /\ fs' = Write(fs, decrypted_path, FernetDecrypt(enc_key, encrypted_chunk))
               /\ inpos' = AfterReads(inpos, chunk_size_bytes, encrypted_chunk)
               /\ processed_size' = processed_size + Len(encrypted_chunk)
               /\ \E d \in Ticks :
                     Track(now + d, processed_size + Len(encrypted_chunk),
                           "dec_loop", "dec_progress", "dec_except")
          ELSE /\ failedAt' = "dec_loop"
               /\ injected' = FALSE
               /\ pc' = "dec_except"
               /\ UNCHANGED <<fs, inpos, processed_size>>
               /\ UNCHANGED clock
    /\ UNCHANGED <<file_size, original_hash, decrypted_hash, decrypted_path>>
    /\ UNCHANGED DecArgs

\* total_time = time.time() - start_time; average_speed = file_size /
\* total_time, which raises on a total_time of 0; then return
DecCompleteTimed ==
    /\ pc = "dec_complete"
    /\ \E d \in Ticks :
          IF now + d - start_time = 0
          THEN /\ pc' = "dec_except"
               /\ failedAt' = "dec_complete"
               /\ injected' = FALSE
               /\ now' = now + d
               /\ UNCHANGED <<start_time, last_progress_update, progress_interval, reports>>
          ELSE /\ pc' = "dec_returned"
               /\ Forgotten
               /\ UNCHANGED <<failedAt, injected>>
    /\ UNCHANGED <<fs, file_size, original_hash, decrypted_hash, processed_size, inpos,
                   decrypted_path>>
    /\ UNCHANGED DecArgs

\* both calls with a positive progress_interval, every statement that reads
\* the clock reading it, and no fault other than what the code raises
InitProgress ==
    /\ plain \in SeqsUpTo(PlainBytes, MaxLen)
    /\ enc_key \in Keys
    /\ chunk_size \in 1..MaxChunk
    /\ progress_interval \in 1..MaxInterval
    /\ Called

NextProgress ==
    \/ EncStart
    \/ EncStat
    \/ EncHashOriginal
    \/ EncOpenTimed
    \/ EncWriteHeader
    \/ EncChunkTimed
    \/ EncHashContainer
    \/ EncMetaOpen
    \/ EncMetaWrite
    \/ EncRemoveOriginal
    \/ EncCompleteTimed
    \/ EncExcept
    \/ TruncateContainer
    \/ DecStart
    \/ DecStat
    \/ DecOpenTimed
    \/ DecReadHeader
    \/ DecChunkTimed
    \/ DecVerify
    \/ DecMetaOpen
    \/ DecMetaWrite
    \/ DecRemoveContainer
    \/ DecRemoveSidecar
    \/ DecCompleteTimed
    \/ DecExcept

SpecProgress == InitProgress /\ [][NextProgress]_vars

(* ------------------- DatabaseBackup and DatabaseRestore ---------------- *)
\* what neither execute nor the functions it calls besides encrypt_file and
\* decrypt_file assign
Codec == <<plain, enc_key, chunk_size, file_size, original_hash, encrypted_hash,
           decrypted_hash, processed_size, inpos, decrypted_path, failedAt,
           injected, truncated, sameKey, corrupted, dec_file_path, clock>>

\* backup_postgres_db: a pg_dump that cannot be launched, or that exits
\* non-zero, ends in PostgresBackupError
BackupOutcome(launched, rc) ==
    IF ~launched THEN "PostgresBackupError"
    ELSE IF rc # 0 THEN "PostgresBackupError"
    ELSE "returned"

\* restore_postgres_db: a psql that cannot be launched ends in
\* PostgresRestoreError; a non-zero exit is printed, and output is returned
RestoreOutcome(launched, rc) ==
    IF ~launched THEN "PostgresRestoreError" ELSE "returned"

\* if file and file.exists()
Truthy(p) == p # NoneValue
Exists(f, p) == IF p = Dot THEN TRUE ELSE f[p].exists

\* _cleanup_files(*files): each file that exists is unlinked, in order;
\* unlinking the current directory raises IsADirectoryError
RECURSIVE CleanupFiles(_, _)
CleanupFiles(f, files) ==
    IF files = <<>> THEN [fs |-> f, raised |-> FALSE]
    ELSE IF Truthy(Head(files)) /\ Exists(f, Head(files))
    THEN IF Head(files) = Dot
         THEN [fs |-> f, raised |-> TRUE]
         ELSE CleanupFiles(Remove(f, Head(files)), Tail(files))
    ELSE CleanupFiles(f, Tail(files))

\* an execute that goes on to upload whatever encrypt_file did
AfterEncryptUnchecked(p) == "b_upload"

\* the statement after encrypted_file = self._encrypt_backup(...)
AfterEncrypt(p) == IF p = "enc_returned" THEN "b_upload" ELSE "b_except"

\* backup_file = self._create_backup(...): pg_dump writes the dump; a
\* failed pg_dump may leave a file behind, and backup_file is not assigned
BackupCreate ==
    /\ opc = "b_create"
    /\ \E launched \in BOOLEAN, rc \in {0, 1}, partial \in BOOLEAN :
          /\ returncode' = IF launched THEN rc ELSE returncode
          /\ IF BackupOutcome(launched, rc) = "returned"
             THEN /\ fs' = [fs EXCEPT ![SrcPath] = File(plain)]
                  /\ fs0' = [fs EXCEPT ![SrcPath] = File(plain)]
                  /\ backup_file' = SrcPath
                  /\ opc' = "b_encrypt"
                  /\ pc' = "enc_start"
                  /\ events' = Append(events, "dump_returned")
                  /\ UNCHANGED exc
             ELSE /\ fs' = IF launched /\ partial
                           THEN [fs EXCEPT ![SrcPath] = File(<<>>)] ELSE fs
                  /\ opc' = "b_except"
                  /\ exc' = BackupOutcome(launched, rc)
                  /\ events' = Append(events, "dump_raised")
                  /\ UNCHANGED <<fs0, backup_file, pc>>
    /\ UNCHANGED <<encrypted_file, bucket>>
    /\ UNCHANGED Codec

\* encrypted_file = self._encrypt_backup(...): encrypt_file has returned
\* or raised
BackupEncrypted ==
    /\ opc = "b_encrypt"
    /\ pc \in {"enc_returned", "enc_raised", "enc_key_error"}
    /\ opc' = AfterEncrypt(pc)
    /\ IF pc = "enc_returned"
       THEN /\ encrypted_file' = encrypted_path
            /\ events' = Append(events, "encrypt_returned")
            /\ UNCHANGED exc
       ELSE /\ exc' = "EncryptError"
            /\ events' = Append(events, "encrypt_raised")
            /\ UNCHANGED encrypted_file
    /\ UNCHANGED <<fs, pc, fs0, backup_file, bucket, returncode>>
    /\ UNCHANGED Codec

\* upload_file(prefix, p, logger): stat, open, s3.upload_fileobj; the
\* transfer may fail
Upload(p, ok, done, next) ==
    IF Exists(fs, p) /\ p \in Paths /\ ok
    THEN /\ bucket' = [bucket EXCEPT ![p] = fs[p]]
         /\ events' = Append(events, done)
         /\ opc' = next
         /\ UNCHANGED exc
    ELSE /\ opc' = "b_except"
         /\ exc' = "UploadError"
         /\ events' = Append(events, "upload_raised")
         /\ UNCHANGED bucket

\* self._upload_backup(encrypted_file, ...)
BackupUpload ==
    /\ opc = "b_upload"
    /\ \E ok \in BOOLEAN : Upload(encrypted_file, ok, "upload_container", "b_upload_meta")
    /\ UNCHANGED <<fs, pc, fs0, backup_file, encrypted_file, returncode>>
    /\ UNCHANGED Codec

\* self._upload_backup(encrypted_file.with_suffix('.metadata'), ...)
BackupUploadMetadata ==
    /\ opc = "b_upload_meta"
    /\ \E ok \in BOOLEAN :
          Upload(WithSuffix(encrypted_file, <<".metadata">>), ok,
                 "upload_sidecar", "b_finally")
    /\ UNCHANGED <<fs, pc, fs0, backup_file, encrypted_file, returncode>>
    /\ UNCHANGED Codec

\* except Exception as e: raise BackupError(...)
Except(from, to) ==
    /\ opc = from
    /\ exc' = "BackupError"
    /\ opc' = to
    /\ UNCHANGED <<fs, pc, fs0, backup_file, encrypted_file, bucket, returncode, events>>
    /\ UNCHANGED Codec

\* finally: self._cleanup_files(backup_file, encrypted_file); what the
\* cleanup raises replaces the exception on its way out
Finally(from, returned, raised) ==
    /\ opc = from
    /\ LET r == CleanupFiles(fs, <<backup_file, encrypted_file>>)
       IN /\ fs' = r.fs
          /\ exc' = IF r.raised THEN "IsADirectoryError" ELSE exc
          /\ opc' = IF r.raised \/ exc # "none" THEN raised ELSE returned
    /\ UNCHANGED <<pc, fs0, backup_file, encrypted_file, bucket, returncode, events>>
    /\ UNCHANGED Codec

BackupExcept == Except("b_except", "b_finally")
BackupFinally == Finally("b_finally", "b_returned", "b_raised")

\* a later run of restore_database.py: backup_file = Path(); encrypted_file
\* = Path(); backup_file = self._download_backup(...).  download_file
\* fetches the container into ./tmp, or logs the error and returns None
RestoreDownload ==
    /\ opc \in {"b_returned", "b_raised"}
    /\ \E ok \in BOOLEAN :
          IF bucket[encrypted_path].exists /\ ok
          THEN /\ fs' = [NoFiles EXCEPT ![encrypted_path] = bucket[encrypted_path]]
               /\ backup_file' = encrypted_path
               /\ events' = Append(events, "download_returned")
          ELSE /\ fs' = NoFiles
               /\ backup_file' = NoneValue
               /\ events' = Append(events, "download_returned_none")
    /\ encrypted_file' = Dot
    /\ exc' = "none"
    /\ opc' = "r_decrypt"
    /\ pc' = "handover"
    /\ failedAt' = "none"
    /\ injected' = FALSE
    /\ UNCHANGED <<fs0, bucket, returncode>>
    /\ UNCHANGED <<plain, enc_key, chunk_size, file_size, original_hash, encrypted_hash,
                   decrypted_hash, processed_size, inpos, decrypted_path,
                   truncated, sameKey, corrupted, dec_file_path, clock>>

\* decrypted_file = self._decrypt_backup(backup_file, ...) with the
\* container downloaded: decrypt_file is called
RestoreDecrypt ==
    /\ opc = "r_decrypt"
    /\ backup_file # NoneValue
    /\ DecStart

\* the same with backup_file = None: Path(file_path) raises TypeError
RestoreDecryptNone ==
    /\ opc = "r_decrypt"
    /\ pc = "handover"
    /\ backup_file = NoneValue
    /\ opc' = "r_except"
    /\ exc' = "TypeError"
    /\ events' = Append(events, "decrypt_raised")
    /\ UNCHANGED <<fs, pc, fs0, backup_file, encrypted_file, bucket, returncode>>
    /\ UNCHANGED Codec

\* decrypt_file has returned or raised
RestoreDecrypted ==
    /\ opc = "r_decrypt"
    /\ pc \in {"dec_returned", "dec_raised", "dec_key_error"}
    /\ IF pc = "dec_returned"
       THEN /\ opc' = "r_restore"
            /\ events' = Append(events, "decrypt_returned")
            /\ UNCHANGED exc
       ELSE /\ opc' = "r_except"
            /\ exc' = "DecryptError"
            /\ events' = Append(events, "decrypt_raised")
    /\ UNCHANGED <<fs, pc, fs0, backup_file, encrypted_file, bucket, returncode>>
    /\ UNCHANGED Codec

\* self._restore_backup(decrypted_file, ...): restore_postgres_db runs psql
RestoreRestore ==
    /\ opc = "r_restore"
    /\ \E launched \in BOOLEAN, rc \in {0, 1} :
          /\ returncode' = IF launched THEN rc ELSE returncode
          /\ IF RestoreOutcome(launched, rc) = "returned"
             THEN /\ opc' = "r_finally"
                  /\ events' = Append(events, "restore_returned")
                  /\ UNCHANGED exc
             ELSE /\ opc' = "r_except"
                  /\ exc' = RestoreOutcome(launched, rc)
                  /\ events' = Append(events, "restore_raised")
    /\ UNCHANGED <<fs, pc, fs0, backup_file, encrypted_file, bucket>>
    /\ UNCHANGED Codec

RestoreExcept == Except("r_except", "r_finally")
RestoreFinally == Finally("r_finally", "r_returned", "r_raised")

\* backup_database.py, and restore_database.py some time after it
InitPipeline ==
    /\ plain \in SeqsUpTo(PlainBytes, MaxLen)
    /\ enc_key \in Keys \cup BadKeys
    /\ chunk_size \in 1..MaxChunk
    /\ progress_interval = DefaultInterval
    /\ fs = NoFiles
    /\ fs0 = fs
    /\ pc = "idle"
    /\ file_size = 0
    /\ original_hash = <<>>
    /\ encrypted_hash = <<>>
    /\ decrypted_hash = <<>>
    /\ processed_size = 0
    /\ inpos = 0
    /\ decrypted_path = SrcPath
    /\ failedAt = "none"
    /\ injected = FALSE
    /\ truncated = FALSE
    /\ sameKey = TRUE
    /\ corrupted = 0
    /\ dec_file_path = encrypted_path
    /\ now = 0
    /\ start_time = 0
    /\ last_progress_update = 0
    /\ reports = <<>>
    /\ opc = "b_create"
    /\ backup_file = Dot
    /\ encrypted_file = Dot
    /\ bucket = NoFiles
    /\ returncode = 0
    /\ exc = "none"
    /\ events = <<>>

NextPipeline ==
    \/ BackupCreate
    \/ EncNext
    \/ BackupEncrypted
    \/ BackupUpload
    \/ BackupUploadMetadata
    \/ BackupExcept
    \/ BackupFinally
    \/ RestoreDownload
    \/ RestoreDecrypt
    \/ RestoreDecryptNone
    \/ DecStat
    \/ DecOpen
    \/ DecReadHeader
    \/ DecChunk
    \/ DecVerify
    \/ DecMetaOpen
    \/ DecMetaWrite
    \/ DecRemoveContainer
    \/ DecRemoveSidecar
    \/ DecComplete
    \/ DecFault
    \/ DecExcept
    \/ RestoreDecrypted
    \/ RestoreRestore
    \/ RestoreExcept
    \/ RestoreFinally

SpecPipeline == InitPipeline /\ [][NextPipeline]_vars

(* ------------------- decrypt_file on any container -------------------- *)
\* what may follow the kept part of a damaged container: up to MaxTail
\* bytes of any content
Tails == SeqsUpTo(PlainBytes, MaxTail)

\* the file decrypt_file is given is any finite file: the container kept
\* up to some offset, then other bytes (a truncated file, a zero declared
\* length, a declared length larger than what is left)
DamageContainer ==
    /\ Returned
    /\ ~truncated
    /\ pc' = "handover"
    /\ \E cut \in 0..Len(fs[encrypted_path].data) :
       \E tail \in Tails :
          /\ SubSeq(fs[encrypted_path].data, 1, cut) \o tail # fs[encrypted_path].data
          /\ fs' = [fs EXCEPT ![encrypted_path] =
                       File(SubSeq(fs[encrypted_path].data, 1, cut) \o tail)]
    /\ truncated' = TRUE
    /\ UNCHANGED corrupted
    /\ UNCHANGED Handover

NextReader == EncNext \/ DamageContainer \/ DecNext

SpecReader == Init /\ [][NextReader]_vars

(* ------------------- decrypt_file on a renamed container -------------- *)
\* the caller of decrypt_file names the file: a container moved to a name
\* without ".encrypted" (its sidecar, found by with_suffix, stays where it is)
RenameContainer ==
    /\ Returned
    /\ dec_file_path = encrypted_path
    /\ fs' = [fs EXCEPT ![RenamedPath] = fs[encrypted_path],
                        ![encrypted_path] = NoFile]
    /\ dec_file_path' = RenamedPath
    /\ pc' = "handover"
    /\ UNCHANGED <<plain, enc_key, chunk_size, file_size, original_hash,
                   encrypted_hash, decrypted_hash, processed_size, inpos,
                   decrypted_path, fs0, failedAt, injected, sameKey, truncated,
                   corrupted, clock, pipeline>>

NextRename == EncNext \/ LoseSidecar \/ RenameContainer \/ DecNext

SpecRename == Init /\ [][NextRename]_vars

(* ------------------------------- claims -------------------------------- *)
EncPcs == EncTryPcs \cup {"enc_except", "enc_returned", "enc_raised"}
DecPcs == DecTryPcs \cup {"dec_except", "dec_returned", "dec_raised"}
\* the statements of decrypt_file after the digest was verified
DecVerifiedPcs == {"dec_meta_open", "dec_meta_write", "dec_remove",
                   "dec_remove_meta", "dec_complete", "dec_returned"}

InEncrypt == pc \in EncPcs
InDecrypt == pc \in DecPcs

\* the digest a container's header holds
EmbeddedDigest(data) ==
    Read(data, LenWidth, FromBytes(Read(data, 0, LenWidth)))

\* the sidecar at metadata_path holds the six records of this container
MetadataComplete(f) ==
    /\ f[metadata_path].exists
    /\ Len(f[metadata_path].data) = MetaRecords
    /\ [i \in 1..MetaRecords |-> f[metadata_path].data[i][1]] =
          <<"original_filename", "original_size", "original_hash",
            "encrypted_hash", "encryption_date", "encryption_time">>
    /\ f[metadata_path].data[1][2] = file_path
    /\ f[metadata_path].data[2][2] = Len(plain)
    /\ f[metadata_path].data[3][2] = Sha256Hex(plain)
    /\ f[metadata_path].data[4][2] = Sha256Hex(f[encrypted_path].data)

\* C1: round trip.  decrypt_file, given the untouched container of
\* encrypt_file and the same key, raises nothing of its own, and when it
\* has returned the output file holds the original bytes and its digest is
\* the digest the container's header held.
C1_RoundTrip ==
    (InDecrypt /\ sameKey /\ ~truncated) =>
        /\ failedAt # "none" => injected
        /\ pc = "dec_returned" =>
              /\ fs[decrypted_path] = File(plain)
              /\ calculate_file_hash(fs, decrypted_path)
                    = EmbeddedDigest(fs0[encrypted_path].data)
              /\ EmbeddedDigest(fs0[encrypted_path].data) = Sha256Hex(plain)

\* C1 witness: a file of several chunks whose size is no multiple of the
\* chunk size went through both calls.
C1_Witness ==
    /\ pc = "dec_returned"
    /\ sameKey
    /\ Len(plain) > chunk_size
    /\ Len(plain) % chunk_size # 0
    /\ fs[decrypted_path] = File(plain)

\* C2 (as claimed): whenever encrypt_file has raised, the original is
\* still present with its content, and the container and sidecar paths are
\* as they were before the call.
C2_FailedEncryptRestores ==
    pc = "enc_raised" =>
        /\ fs[file_path] = File(plain)
        /\ fs[encrypted_path] = fs0[encrypted_path]
        /\ fs[metadata_path] = fs0[metadata_path]

\* C3 (as claimed): whenever decrypt_file has raised, the container still
\* exists with the content it had when the call started.
C3_FailedDecryptKeepsContainer ==
    pc = "dec_raised" =>
        /\ fs[encrypted_path].exists
        /\ fs[encrypted_path] = fs0[encrypted_path]

\* C4: whenever encrypt_file has returned or raised, a container exists at
\* the encrypted path only together with its complete sidecar of six
\* records.
C4_ContainerOnlyWithMetadata ==
    pc \in {"enc_returned", "enc_raised"} =>
        (fs[encrypted_path].exists => MetadataComplete(fs))

\* C4 witness: encrypt_file raised while the sidecar was half written.
C4_Witness ==
    /\ pc = "enc_raised"
    /\ failedAt = "enc_meta_write"
    /\ ~fs[encrypted_path].exists

\* C5 (as claimed): in no state of a call of encrypt_file is the original
\* absent while the sidecar is missing or incomplete.
C5_OriginalAbsentOnlyWithSidecar ==
    InEncrypt => (~fs[file_path].exists => MetadataComplete(fs))

\* The ordering half of C5, which the code keeps: the step that deletes the
\* original is os.remove(file_path), taken with the container closed and
\* hashed and the sidecar complete.
OriginalDeletedAfterSidecar ==
    [][(fs[file_path].exists /\ ~fs'[file_path].exists) =>
          (pc = "enc_remove" /\ MetadataComplete(fs)
             /\ encrypted_hash = calculate_file_hash(fs, encrypted_path))]_vars

\* C6: when encrypt_file has raised, neither the container nor the sidecar
\* exists; and a call in which a statement failed never returns.
C6_EncryptFailureCleanup ==
    /\ pc = "enc_raised" =>
          /\ ~fs[encrypted_path].exists
          /\ ~fs[metadata_path].exists
    /\ (InEncrypt /\ failedAt # "none") => pc \in {"enc_except", "enc_raised"}

\* C6 witness: a failure in the middle of the chunk loop, after a chunk
\* was written.
C6_Witness ==
    /\ pc = "enc_raised"
    /\ failedAt = "enc_loop"
    /\ processed_size > 0
    /\ processed_size < file_size

\* C7: when decrypt_file has raised, neither the output file nor the
\* decryption sidecar exists; and a call in which a statement failed never
\* returns.
C7_DecryptFailureCleanup ==
    /\ pc = "dec_raised" =>
          /\ ~fs[decrypted_path].exists
          /\ ~fs[DecryptionMetadataPath(decrypted_path)].exists
    /\ (InDecrypt /\ failedAt # "none") => pc \in {"dec_except", "dec_raised"}

\* C7 witness: a failure in the middle of the chunk loop, after a chunk
\* was decrypted and written.
C7_Witness ==
    /\ pc = "dec_raised"
    /\ failedAt = "dec_loop"
    /\ processed_size > 0

\* C8: decrypt_file goes past the verification, and returns, only with
\* the recomputed digest equal to the header's; on a mismatch it raises,
\* writes no decryption sidecar and leaves the container and its sidecar
\* as they were.
C8_DigestMismatchFatal ==
    /\ pc \in DecVerifiedPcs =>
          calculate_file_hash(fs, decrypted_path) = original_hash
    /\ (InDecrypt /\ failedAt = "dec_verify" /\ ~injected) =>
          /\ pc \in {"dec_except", "dec_raised"}
          /\ ~fs[DecryptionMetadataPath(decrypted_path)].exists
          /\ fs[encrypted_path] = fs0[encrypted_path]
          /\ fs[metadata_path] = fs0[metadata_path]

\* C8 witness: the verification itself raised.
C8_Witness ==
    /\ pc = "dec_raised"
    /\ failedAt = "dec_verify"
    /\ ~injected
    /\ fs[encrypted_path].exists

\* C9 (as claimed): with a key other than the one of encrypt_file,
\* decrypt_file never returns, whatever the file, it fails at the first
\* chunk and no plaintext byte is written.
C9_WrongKeyAlwaysFails ==
    (InDecrypt /\ ~sameKey /\ ~truncated) =>
        /\ pc # "dec_returned"
        /\ fs[decrypted_path].data = <<>>
        /\ (failedAt # "none" /\ ~injected) =>
              (failedAt = "dec_loop" /\ processed_size = 0)

\* C9 (amended): for the container of a non-empty file, decrypt_file with
\* another key never leaves the chunk loop normally, fails at the first
\* chunk and writes no plaintext byte; for the container of an empty file,
\* which has no chunk, it raises nothing of its own.
C9_WrongKeyFailsOnFirstChunk ==
    (InDecrypt /\ ~sameKey /\ ~truncated) =>
        IF plain # <<>>
        THEN /\ pc \notin DecVerifiedPcs \cup {"dec_verify"}
             /\ fs[decrypted_path].data = <<>>
             /\ (failedAt # "none" /\ ~injected) =>
                   (failedAt = "dec_loop" /\ processed_size = 0)
        ELSE failedAt # "none" => injected

\* C9 witness: the first chunk of a file of several chunks was rejected.
C9_Witness ==
    /\ pc = "dec_raised"
    /\ ~sameKey
    /\ ~truncated
    /\ Len(plain) > chunk_size
    /\ failedAt = "dec_loop"
    /\ ~injected

\* C10: decrypt_file never gets past the verification, and so never
\* returns, on a container cut short at any offset below its length.
C10_TruncatedNeverReturns ==
    (InDecrypt /\ truncated) => pc \notin DecVerifiedPcs

\* C10 witness: a container cut inside a length prefix, after a whole
\* chunk, ended the loop normally and was rejected by the verification.
C10_Witness ==
    /\ pc = "dec_raised"
    /\ truncated
    /\ sameKey
    /\ processed_size > 0
    /\ inpos < Len(fs[encrypted_path].data)
    /\ failedAt = "dec_verify"
    /\ ~injected

\* C11 (as claimed): the chunk loop of decrypt_file ends normally only with
\* the read position at the end of the container, zero bytes being left
\* where a length prefix is expected; an end of file inside a prefix or
\* inside a chunk body never ends it normally.
C11_LoopEndsOnlyAtBoundary ==
    pc = "dec_verify" => inpos = Len(fs[encrypted_path].data)

\* the bytes of the chunk bodies before chunk j of a container
RECURSIVE BodyBytesBefore(_, _)
BodyBytesBefore(frames, j) ==
    IF j <= 1 THEN 0 ELSE BodyBytesBefore(frames, j - 1) + frames[j - 1].len

\* C12 (as claimed): with one chunk body of the container altered,
\* decrypt_file under the key of encrypt_file never leaves the chunk loop
\* normally, so never reaches the digest verification; what it raises
\* itself is raised in the loop, with exactly the chunks before the altered
\* one consumed; and the output never holds more than the plaintext of
\* those chunks.
C12_CorruptChunkFailsInLoop ==
    (InDecrypt /\ corrupted # 0 /\ sameKey) =>
        LET before == Min(Len(plain), (corrupted - 1) * chunk_size)
            frames == Frames(fs0[encrypted_path].data,
                             HeaderEnd(fs0[encrypted_path].data))
        IN /\ pc \notin DecVerifiedPcs \cup {"dec_verify"}
           /\ Len(fs[decrypted_path].data) <= before
           /\ fs[decrypted_path].data
                 = SubSeq(plain, 1, Len(fs[decrypted_path].data))
           /\ (failedAt # "none" /\ ~injected) =>
                 /\ failedAt = "dec_loop"
                 /\ processed_size = BodyBytesBefore(frames, corrupted)

\* C13: with an invalid key neither call gets past the construction of the
\* cipher: encrypt_file and decrypt_file raise from Fernet(enc_key), before
\* the try block, and every file (source, container, both sidecars, output)
\* is as it was when the call started.
C13_InvalidKeyFailsFast ==
    enc_key \in BadKeys =>
        /\ pc \in {"enc_start", "enc_key_error", "dec_key_error"}
        /\ fs = fs0

\* C13 witness: decrypt_file was given an invalid key while the container
\* and its sidecar were present.
C13_Witness ==
    /\ pc = "dec_key_error"
    /\ enc_key \in BadKeys
    /\ fs[encrypted_path].exists
    /\ fs[metadata_path].exists

\* the decryption sidecar of the output holds its six records
DecryptionMetadataComplete(f, d) ==
    /\ f[DecryptionMetadataPath(d)].exists
    /\ Len(f[DecryptionMetadataPath(d)].data) = MetaRecords
    /\ f[DecryptionMetadataPath(d)].data[2][2] = d

\* C14: in a call of decrypt_file in which nothing has raised, the
\* container is gone only with the decryption sidecar completely written,
\* the encryption sidecar is gone only with the container gone, and when
\* the call has returned the output and its decryption sidecar exist while
\* the container and its encryption sidecar do not.
C14_DecryptFinalizeOrder ==
    (InDecrypt /\ failedAt = "none") =>
        /\ ~fs[encrypted_path].exists =>
              DecryptionMetadataComplete(fs, decrypted_path)
        /\ (fs0[metadata_path].exists /\ ~fs[metadata_path].exists) =>
              ~fs[encrypted_path].exists
        /\ pc = "dec_returned" =>
              /\ fs[decrypted_path].exists
              /\ DecryptionMetadataComplete(fs, decrypted_path)
              /\ ~fs[encrypted_path].exists
              /\ ~fs[metadata_path].exists

\* C14 witness: decrypt_file returned for a container that came with its
\* encryption sidecar.
C14_Witness ==
    /\ pc = "dec_returned"
    /\ fs0[metadata_path].exists
    /\ fs0[encrypted_path].exists
    /\ ~fs[metadata_path].exists
    /\ plain # <<>>

\* the statements of encrypt_file between the end of the chunk loop and the
\* return, the container being closed
EncWrittenPcs == {"enc_hash_container", "enc_meta_open", "enc_meta_write",
                  "enc_remove", "enc_complete", "enc_returned"}

\* the j-th block of chunk_size bytes of the source
SourceChunk(j) ==
    SubSeq(plain, (j - 1) * chunk_size + 1, Min(j * chunk_size, Len(plain)))

\* C15: once the chunk loop of encrypt_file has ended, the container holds
\* behind its header exactly ceil(N / chunk_size) length-prefixed chunks and
\* nothing else; the j-th is the token of the j-th block of chunk_size
\* source bytes, the last block being the shorter remainder; there is no
\* chunk for N = 0; and 150 units with a chunk size of 64 give three chunks
\* of 64, 64 and 22 units.
C15_ChunkCount ==
    pc \in EncWrittenPcs =>
        LET data == fs[encrypted_path].data
            frames == Frames(data, HeaderEnd(data))
            count == (Len(plain) + chunk_size - 1) \div chunk_size
        IN /\ Len(frames) = count
           /\ Len(data) = IF count = 0 THEN HeaderEnd(data)
                          ELSE frames[count].at + frames[count].len
           /\ \A j \in 1..count :
                 /\ SubSeq(data, frames[j].at + 1, frames[j].at + frames[j].len)
                       = FernetEncrypt(enc_key, SourceChunk(j))
                 /\ Len(SourceChunk(j)) =
                       IF j < count THEN chunk_size
                       ELSE Len(plain) - (count - 1) * chunk_size
                 /\ Len(SourceChunk(j)) > 0
           /\ (Len(plain) = 150 /\ chunk_size = 64) =>
                 [j \in 1..count |-> Len(SourceChunk(j))] = <<64, 64, 22>>

\* C15 witness: encrypt_file returned for the file of 150 units with the
\* chunk size 64, and its container holds three chunks.
C15_Witness ==
    /\ pc = "enc_returned"
    /\ Len(plain) = 150
    /\ chunk_size = 64
    /\ Len(Frames(fs[encrypted_path].data, HeaderEnd(fs[encrypted_path].data))) = 3

\* C16: every progress line of a call was logged at least progress_interval
\* seconds after the line before it, the first at least progress_interval
\* seconds after the start of the call; so no two lines fall into one
\* interval.
C16_ProgressSpacing ==
    \A i \in 1..Len(reports) :
        reports[i].at - (IF i = 1 THEN start_time ELSE reports[i - 1].at)
            >= progress_interval

\* C16 witness: decrypt_file has logged two progress lines, the clock
\* having been set back in between.
C16_Witness ==
    /\ InDecrypt
    /\ Len(reports) = 2
    /\ now < reports[2].at

\* the loop statements of the two calls
LoopPcs == {"enc_loop", "dec_loop"}

\* what C17 says of a state: no progress line ever divided by zero; the
\* count of a loop that has processed a chunk is within the total the
\* lines divide by; every line logged had a count within its positive
\* total, a count no smaller than the line before, a positive elapsed time,
\* and an estimate that is not negative and is zero unless the speed is
\* positive.
ProgressSound ==
    /\ failedAt \notin {"enc_progress", "dec_progress"}
    /\ processed_size >= 0
    /\ (pc \in LoopPcs /\ processed_size > 0) => processed_size <= file_size
    /\ \A i \in 1..Len(reports) :
          /\ reports[i].total > 0
          /\ reports[i].processed >= 0
          /\ reports[i].processed <= reports[i].total
          /\ reports[i].elapsed > 0
          /\ reports[i].remaining >= 0
          /\ ~reports[i].eta_negative
          /\ i > 1 => reports[i].processed >= reports[i - 1].processed

\* what C17 says of a step: within the loop of a call the count never
\* decreases.
ProcessedNeverDecreases ==
    (pc \in LoopPcs /\ pc' = pc) => processed_size' >= processed_size

Before(a, b) ==
    \A i \in 1..Len(events) :
        events[i] = b => \E j \in 1..(i - 1) : events[j] = a

Logged(e) == \E i \in 1..Len(events) : events[i] = e

C19_NonZeroExitRaises ==
    (events # <<>> /\ returncode # 0) =>
        events[Len(events)] \notin {"dump_returned", "restore_returned"}

\* an iteration of the chunk loop that goes on to another one has consumed
\* at least one byte of the container
LoopConsumes ==
    (pc = "dec_loop" /\ pc' = "dec_loop") => inpos' > inpos

\* the read position of decrypt_file is within the container
PositionWithinFile ==
    pc \in DecTryPcs \ {"dec_stat", "dec_open"} =>
        inpos \in 0..Len(fs0[encrypted_path].data)

\* decrypt_file is running: in its try block or in its except block
DecRunning == DecTryPcs \cup {"dec_except"}

\* how many statements of decrypt_file lie ahead of statement at, at most
StatementsLeft(at) ==
    CASE at = "dec_stat" -> 11
      [] at = "dec_open" -> 10
      [] at = "dec_header" -> 9
      [] at = "dec_loop" -> 8
      [] at = "dec_verify" -> 7
      [] at = "dec_meta_open" -> 6
      [] at = "dec_meta_write" -> 5
      [] at = "dec_remove" -> 4
      [] at = "dec_remove_meta" -> 3
      [] at = "dec_complete" -> 2
      [] at = "dec_except" -> 1
      [] OTHER -> 0

\* how many iterations the loop at statement at has left, at most: the
\* unread bytes of the container, the unwritten lines of the sidecar
IterationsLeft(at, f, pos, d) ==
    CASE at = "dec_loop" -> Len(fs0[encrypted_path].data) - pos
      [] at = "dec_meta_write" ->
            Len(DecMetadata) - Len(f[DecryptionMetadataPath(d)].data)
      [] OTHER -> 0

\* every step of a running decrypt_file moves on to a later statement, or
\* stays in its loop with fewer iterations left
Closer ==
    pc \in DecRunning =>
        /\ pc' \in DecPcs
        /\ \/ StatementsLeft(pc') < StatementsLeft(pc)
           \/ /\ pc' = pc
              /\ IterationsLeft(pc', fs', inpos', decrypted_path')
                    < IterationsLeft(pc, fs, inpos, decrypted_path)

\* the loops of a running decrypt_file have no negative number of
\* iterations left
LoopsBounded ==
    pc \in DecRunning => IterationsLeft(pc, fs, inpos, decrypted_path) >= 0

\* C20: on every finite container, well-formed or not, each iteration of
\* the chunk loop of decrypt_file consumes at least one byte or ends the
\* loop, and decrypt_file returns or raises after finitely many steps:
\* every step of it leads to a later statement or leaves its loop fewer
\* iterations, a measure that is never negative and so cannot fall for ever
C20_ReaderTerminates ==
    /\ [][LoopConsumes /\ Closer]_vars
    /\ [](PositionWithinFile /\ LoopsBounded)

\* a damaged container whose first chunk was decrypted and whose loop then
\* ended on a zero declared length with bytes of the file left unread
C20_Witness ==
    /\ pc = "dec_verify"
    /\ truncated
    /\ processed_size > 0
    /\ LET data == fs[encrypted_path].data
       IN /\ Len(ChunkSizeBytes(data, inpos)) = LenWidth
          /\ FromBytes(ChunkSizeBytes(data, inpos)) = 0
          /\ inpos + LenWidth < Len(data)

\* opening the output and the cleanup of the except block leave the
\* container as it is
ContainerKept ==
    pc \in {"dec_open", "dec_except"} => fs'[dec_file_path] = fs[dec_file_path]

\* C21: the output path decrypt_file chooses is never the path of the
\* container it was given, so decrypt_file neither opens its container for
\* writing nor deletes it in its failure cleanup
C21_OutputNotContainer ==
    /\ [](pc \in DecPcs => decrypted_path # dec_file_path)
    /\ [][ContainerKept]_vars

\* C22: whatever step of DatabaseBackup.execute fails, the exception that
\* leaves execute is BackupError
C22_FailureIsBackupError ==
    opc = "b_raised" => exc = "BackupError"

\* C23: once DatabaseBackup.execute has returned or raised, neither the
\* dump nor the container nor the metadata sidecar is on the local disk
C23_NoArtifactRemains ==
    opc \in {"b_returned", "b_raised"} =>
        /\ ~fs[SrcPath].exists
        /\ ~fs[encrypted_path].exists
        /\ ~fs[metadata_path].exists
====
